---- MODULE Spec2Model ----
(***************************************************************************)
(* A model of compact_bool.py: CompactBoolMatrix, a square boolean matrix  *)
(* of size og_size x og_size stored in new_size x new_size packed cells    *)
(* (new_size = ceil(og_size / 2)), each packed cell holding one of sixteen *)
(* cases that encode the booleans of four domains.                         *)
(***************************************************************************)
EXTENDS Integers, Sequences, FiniteSets, TLC

VARIABLES ctor, self, other, dense, last, nops, mainpc, normal_mat, synced

vars == <<ctor, self, other, dense, last, nops, mainpc, normal_mat, synced>>

\* ------------------------------------------------------------------ bounds
\* Largest size a client constructs a matrix with.
MaxSize == 4
\* Sizes down to -NegSizes are tried by the constructor.
NegSizes == 3
\* Number of calls a client makes on a constructed matrix.
MaxOps == 2
\* Largest size of the two matrices that are compared with __eq__.
MaxEqSize == 3
\* Number of calls applied to both matrices before they are compared.
MaxEqOps == 2

\* ------------------------------------------------------- the three tables
\* set_false with the first entry of domain 1 copied from set_true.
MutSetFalseTable(domain) ==
    CASE domain = 0 -> <<0, 0, 2, 3,  4, 2, 3, 4,  8, 9, 10, 8,  9, 10, 14, 14>>
      [] domain = 1 -> <<2, 1, 0, 3,  4, 1, 6, 7,  3, 4, 10, 6,  7, 13, 10, 13>>
      [] domain = 2 -> <<0, 1, 2, 0,  4, 5, 1, 7,  2, 9, 4, 5,  12, 7, 9, 12>>
      [] OTHER      -> <<0, 1, 2, 3,  0, 5, 6, 1,  8, 2, 3, 11,  5, 6, 8, 11>>

\* set_false: value_table of each domain (index: the packed value).
SetFalseTable(domain) ==
    CASE domain = 0 -> <<0, 0, 2, 3,  4, 2, 3, 4,  8, 9, 10, 8,  9, 10, 14, 14>>
      [] domain = 1 -> <<0, 1, 0, 3,  4, 1, 6, 7,  3, 4, 10, 6,  7, 13, 10, 13>>
      [] domain = 2 -> <<0, 1, 2, 0,  4, 5, 1, 7,  2, 9, 4, 5,  12, 7, 9, 12>>
      [] OTHER      -> <<0, 1, 2, 3,  0, 5, 6, 1,  8, 2, 3, 11,  5, 6, 8, 11>>

\* set_true with the table of domain 0 copied from set_false.
MutSetTrueTable(domain) ==
    CASE domain = 0 -> <<0, 0, 2, 3,  4, 2, 3, 4,  8, 9, 10, 8,  9, 10, 14, 14>>
      [] domain = 1 -> <<2, 5, 2, 8,  9, 5, 11, 12,  8, 9, 14, 11,  12, 15, 14, 15>>
      [] domain = 2 -> <<3, 6, 8, 3,  10, 11, 6, 13,  8, 14, 10, 11,  15, 13, 14, 15>>
      [] OTHER      -> <<4, 7, 9, 10,  4, 12, 13, 7,  14, 9, 10, 15,  12, 13, 14, 15>>

\* set_true with a slip in the table of domain 2: case 2 goes to 9, not 8.
MutSetTrueTypo(domain) ==
    CASE domain = 0 -> <<1, 1, 5, 6,  7, 5, 6, 7,  11, 12, 13, 11,  12, 13, 15, 15>>
      [] domain = 1 -> <<2, 5, 2, 8,  9, 5, 11, 12,  8, 9, 14, 11,  12, 15, 14, 15>>
      [] domain = 2 -> <<3, 6, 9, 3,  10, 11, 6, 13,  8, 14, 10, 11,  15, 13, 14, 15>>
      [] OTHER      -> <<4, 7, 9, 10,  4, 12, 13, 7,  14, 9, 10, 15,  12, 13, 14, 15>>

\* set_true with a slip in the table of domain 3: case 15 goes to 16.
MutSetTrueRange(domain) ==
    CASE domain = 0 -> <<1, 1, 5, 6,  7, 5, 6, 7,  11, 12, 13, 11,  12, 13, 15, 15>>
      [] domain = 1 -> <<2, 5, 2, 8,  9, 5, 11, 12,  8, 9, 14, 11,  12, 15, 14, 15>>
      [] domain = 2 -> <<3, 6, 8, 3,  10, 11, 6, 13,  8, 14, 10, 11,  15, 13, 14, 15>>
      [] OTHER      -> <<4, 7, 9, 10,  4, 12, 13, 7,  14, 9, 10, 15,  12, 13, 14, 16>>

\* set_true: value_table of each domain.
SetTrueTable(domain) ==
    CASE domain = 0 -> <<1, 1, 5, 6,  7, 5, 6, 7,  11, 12, 13, 11,  12, 13, 15, 15>>
      [] domain = 1 -> <<2, 5, 2, 8,  9, 5, 11, 12,  8, 9, 14, 11,  12, 15, 14, 15>>
      [] domain = 2 -> <<3, 6, 8, 3,  10, 11, 6, 13,  8, 14, 10, 11,  15, 13, 14, 15>>
      [] OTHER      -> <<4, 7, 9, 10,  4, 12, 13, 7,  14, 9, 10, 15,  12, 13, 14, 15>>

\* get with a slip in the table of domain 3: case 7 reads False.
MutTruthTable(domain) ==
    CASE domain = 0 -> <<FALSE, TRUE, FALSE, FALSE,  FALSE, TRUE, TRUE, TRUE,
                         FALSE, FALSE, FALSE, TRUE,  TRUE, TRUE, FALSE, TRUE>>
      [] domain = 1 -> <<FALSE, FALSE, TRUE, FALSE,  FALSE, TRUE, FALSE, FALSE,
                         TRUE, TRUE, FALSE, TRUE,  TRUE, FALSE, TRUE, TRUE>>
      [] domain = 2 -> <<FALSE, FALSE, FALSE, TRUE,  FALSE, FALSE, TRUE, FALSE,
                         TRUE, FALSE, TRUE, TRUE,  FALSE, TRUE, TRUE, TRUE>>
      [] OTHER      -> <<FALSE, FALSE, FALSE, FALSE,  TRUE, FALSE, FALSE, FALSE,
                         FALSE, TRUE, TRUE, FALSE,  TRUE, TRUE, TRUE, TRUE>>

\* get: truth_table of each domain.
TruthTable(domain) ==
    CASE domain = 0 -> <<FALSE, TRUE, FALSE, FALSE,  FALSE, TRUE, TRUE, TRUE,
                         FALSE, FALSE, FALSE, TRUE,  TRUE, TRUE, FALSE, TRUE>>
      [] domain = 1 -> <<FALSE, FALSE, TRUE, FALSE,  FALSE, TRUE, FALSE, FALSE,
                         TRUE, TRUE, FALSE, TRUE,  TRUE, FALSE, TRUE, TRUE>>
      [] domain = 2 -> <<FALSE, FALSE, FALSE, TRUE,  FALSE, FALSE, TRUE, FALSE,
                         TRUE, FALSE, TRUE, TRUE,  FALSE, TRUE, TRUE, TRUE>>
      [] OTHER      -> <<FALSE, FALSE, FALSE, FALSE,  TRUE, FALSE, FALSE, TRUE,
                         FALSE, TRUE, TRUE, FALSE,  TRUE, TRUE, TRUE, TRUE>>

\* The domain ids and the packed values (the sixteen cases).
Domains == 0 .. 3

Cases == 0 .. 15

\* The sixteen cases of the module docstring, each as the booleans of domains
\* 0, 1, 2, 3 (O = TRUE, X = FALSE), case 0 first.
CaseTable ==
    << <<FALSE, FALSE, FALSE, FALSE>>, <<TRUE, FALSE, FALSE, FALSE>>,
       <<FALSE, TRUE, FALSE, FALSE>>,  <<FALSE, FALSE, TRUE, FALSE>>,
       <<FALSE, FALSE, FALSE, TRUE>>,  <<TRUE, TRUE, FALSE, FALSE>>,
       <<TRUE, FALSE, TRUE, FALSE>>,   <<TRUE, FALSE, FALSE, TRUE>>,
       <<FALSE, TRUE, TRUE, FALSE>>,   <<FALSE, TRUE, FALSE, TRUE>>,
       <<FALSE, FALSE, TRUE, TRUE>>,   <<TRUE, TRUE, TRUE, FALSE>>,
       <<TRUE, TRUE, FALSE, TRUE>>,    <<TRUE, FALSE, TRUE, TRUE>>,
       <<FALSE, TRUE, TRUE, TRUE>>,    <<TRUE, TRUE, TRUE, TRUE>> >>

\* A Python list is indexed from 0.
ListItem(list, val) == list[val + 1]

\* ------------------------------------------------------------ the object
\* ceil(size / 2), for negative sizes too: ceil(-1/2) = 0, ceil(-3/2) = -1.
Ceil2(size) == (size + 1) \div 2

\* A structure whose array is not zeroed: every cell holds case 1.
MutNewMatrix(size) ==
    [og_size  |-> size,
     new_size |-> Ceil2(size),
     matrix   |-> [i \in 0 .. Ceil2(size) - 1 |-> [j \in 0 .. Ceil2(size) - 1 |-> 1]]]

\* The ctypes structure after __init__: every cell of the array is zero.
NewMatrix(size) ==
    [og_size  |-> size,
     new_size |-> Ceil2(size),
     matrix   |-> [i \in 0 .. Ceil2(size) - 1 |-> [j \in 0 .. Ceil2(size) - 1 |-> 0]]]

\* c_int8 * new_size raises ValueError for a negative length.
CtorRaises(size) == Ceil2(size) < 0

\* No object (before construction, or after a constructor that raised).
NoMatrix == [og_size |-> 0, new_size |-> 0, matrix |-> << >>]

\* An array that does not count a negative index from its end.
MutPyIndex(i, len) == i

\* A ctypes array takes a negative index as counted from its end.
PyIndex(i, len) == IF i < 0 THEN i + len ELSE i

\* The range check with > for >=.
MutOutOfBound(m, x, y) == x > m.og_size \/ y > m.og_size

\* The range check of __get_domain.
OutOfBound(m, x, y) == x >= m.og_size \/ y >= m.og_size

\* __get_domain, past its range check.
GetDomain(m, x, y) ==
    LET s == m.new_size IN
    IF x < s /\ y < s THEN 0
    ELSE IF x > s /\ s > y THEN 1
    ELSE IF x < s /\ s < y THEN 2
    ELSE 3

\* The raw indices set_false, set_true and __get_compact_val use for a domain.
RawRow(m, x, domain) == IF domain = 1 \/ domain = 3 THEN x - m.new_size ELSE x

RawCol(m, y, domain) == IF domain = 2 \/ domain = 3 THEN y - m.new_size ELSE y

\* The packed cell those indices address.
CellRow(m, x, domain) == PyIndex(RawRow(m, x, domain), m.new_size)

CellCol(m, y, domain) == PyIndex(RawCol(m, y, domain), m.new_size)

\* An index outside the array raises IndexError.
IndexError(m, x, y, domain) ==
    \/ CellRow(m, x, domain) \notin 0 .. m.new_size - 1
    \/ CellCol(m, y, domain) \notin 0 .. m.new_size - 1

\* __get_compact_val
GetCompactVal(m, x, y, domain) ==
    m.matrix[CellRow(m, x, domain)][CellCol(m, y, domain)]

\* A write that subtracts new_size from the row for domain 1 only.
MutWriteRow(m, x, domain) ==
    PyIndex(IF domain = 1 THEN x - m.new_size ELSE x, m.new_size)

\* The packed cell set_false and set_true write for a domain: their own index
\* expressions, [x][y], [x - new_size][y], [x][y - new_size] and
\* [x - new_size][y - new_size].
WriteRow(m, x, domain) ==
    PyIndex(IF domain = 0 \/ domain = 2 THEN x ELSE x - m.new_size, m.new_size)

WriteCol(m, y, domain) ==
    PyIndex(IF domain = 0 \/ domain = 1 THEN y ELSE y - m.new_size, m.new_size)

\* A write outside the array raises IndexError.
WriteError(m, x, y, domain) ==
    \/ WriteRow(m, x, domain) \notin 0 .. m.new_size - 1
    \/ WriteCol(m, y, domain) \notin 0 .. m.new_size - 1

\* self.matrix.matrix[..][..] = v
Store(m, i, j, v) == [m EXCEPT !.matrix[i][j] = v]

\* The result of a call: the object after it, the exception raised ("ok": none)
\* and the value returned (<< >>: None).
Result(m, err, ret) == [m |-> m, err |-> err, ret |-> ret]

\* get
Get(m, x, y) ==
    IF OutOfBound(m, x, y) THEN Result(m, "OutOfBound", << >>)
    ELSE LET domain == GetDomain(m, x, y) IN
         IF IndexError(m, x, y, domain) THEN Result(m, "IndexError", << >>)
         ELSE Result(m, "ok",
                     <<ListItem(TruthTable(domain), GetCompactVal(m, x, y, domain))>>)

\* set_false
SetFalse(m, x, y) ==
    IF OutOfBound(m, x, y) THEN Result(m, "OutOfBound", << >>)
    ELSE LET domain == GetDomain(m, x, y) IN
         IF IndexError(m, x, y, domain) \/ WriteError(m, x, y, domain)
         THEN Result(m, "IndexError", << >>)
         ELSE Result(Store(m, WriteRow(m, x, domain), WriteCol(m, y, domain),
                           ListItem(SetFalseTable(domain), GetCompactVal(m, x, y, domain))),
                     "ok", << >>)

\* set_true
SetTrue(m, x, y) ==
    IF OutOfBound(m, x, y) THEN Result(m, "OutOfBound", << >>)
    ELSE LET domain == GetDomain(m, x, y) IN
         IF IndexError(m, x, y, domain) \/ WriteError(m, x, y, domain)
         THEN Result(m, "IndexError", << >>)
         ELSE Result(Store(m, WriteRow(m, x, domain), WriteCol(m, y, domain),
                           ListItem(SetTrueTable(domain), GetCompactVal(m, x, y, domain))),
                     "ok", << >>)

\* switch with its two branches exchanged.
MutSwitch(m, x, y) ==
    LET got == Get(m, x, y) IN
    IF got.err # "ok" THEN Result(m, got.err, << >>)
    ELSE IF got.ret = <<TRUE>> THEN SetTrue(m, x, y)
    ELSE SetFalse(m, x, y)

\* switch
Switch(m, x, y) ==
    LET got == Get(m, x, y) IN
    IF got.err # "ok" THEN Result(m, got.err, << >>)
    ELSE IF got.ret = <<TRUE>> THEN SetFalse(m, x, y)
    ELSE SetTrue(m, x, y)

\* all_false and all_true
Fill(m, v) ==
    [m EXCEPT !.matrix = [i \in 0 .. m.new_size - 1 |-> [j \in 0 .. m.new_size - 1 |-> v]]]

AllFalse(m) == Result(Fill(m, 0), "ok", << >>)

\* all_true that writes case 14 for case 15.
MutAllTrue(m) == Result(Fill(m, 14), "ok", << >>)

AllTrue(m) == Result(Fill(m, 15), "ok", << >>)

\* The logical coordinates of a matrix.
Logical(m) == 0 .. m.og_size - 1

\* The boolean get returns for an in-range cell.
Cell(m, x, y) == Get(m, x, y).ret[1]

\* compact_to_normal
CompactToNormal(m) == [i \in Logical(m) |-> [j \in Logical(m) |-> Cell(m, i, j)]]

\* __len__
Len2(m) == m.og_size * m.og_size

\* The loops of __eq__ from the k-th cell on, in row-major order: the first cell
\* where other.get raises ends the comparison with that exception, the first
\* cell where the two values differ ends it with False.
RECURSIVE EqScan(_, _, _)
EqScan(a, b, k) ==
    IF a.og_size <= 0 \/ k >= a.og_size * a.og_size THEN Result(a, "ok", <<TRUE>>)
    ELSE LET i == k \div a.og_size
             j == k % a.og_size
             mine == Get(a, i, j)
             theirs == Get(b, i, j)
         IN  IF mine.err # "ok" THEN Result(a, mine.err, << >>)
             ELSE IF theirs.err # "ok" THEN Result(a, theirs.err, << >>)
             ELSE IF mine.ret # theirs.ret THEN Result(a, "ok", <<FALSE>>)
             ELSE EqScan(a, b, k + 1)

\* __eq__
Eq(a, b) == IF Len2(a) # Len2(b) THEN Result(a, "ok", <<FALSE>>) ELSE EqScan(a, b, 0)

\* A call by name, as the example code and a client make it.
Apply(m, op, x, y) ==
    CASE op = "set_true"  -> SetTrue(m, x, y)
      [] op = "set_false" -> SetFalse(m, x, y)
      [] op = "switch"    -> Switch(m, x, y)
      [] op = "get"       -> Get(m, x, y)
      [] op = "all_true"  -> AllTrue(m)
      [] op = "all_false" -> AllFalse(m)

\* ------------------------------------------------- the reference matrix
\* A plain og_size x og_size boolean matrix, all False at first, that receives
\* bool_matrix[x][y] = True / = False / = not bool_matrix[x][y] / a fill.
NewDense(size) == [i \in 0 .. size - 1 |-> [j \in 0 .. size - 1 |-> FALSE]]

DenseApply(d, op, x, y) ==
    CASE op = "set_true"  -> [d EXCEPT ![x][y] = TRUE]
      [] op = "set_false" -> [d EXCEPT ![x][y] = FALSE]
      [] op = "switch"    -> [d EXCEPT ![x][y] = ~d[x][y]]
      [] op = "all_true"  -> [i \in DOMAIN d |-> [j \in DOMAIN d |-> TRUE]]
      [] op = "all_false" -> [i \in DOMAIN d |-> [j \in DOMAIN d |-> FALSE]]
      [] OTHER            -> d

\* ------------------------------------------------------------ the state
\* ctor: "none" before a constructor call, "ready" after one that returned,
\* "failed" after one that raised.  last: the last call, the exception it raised,
\* the value it returned, the number of consecutive calls of that operation on
\* those coordinates it ends (run) and, for a coordinate call, what get returned
\* for the cell before the first call of the run (was).
NoCall == [op |-> "none", x |-> 0, y |-> 0, err |-> "ok", ret |-> << >>,
           run |-> 0, was |-> << >>]

Init ==
    /\ ctor = "none"
    /\ self = NoMatrix
    /\ other = NoMatrix
    /\ dense = << >>
    /\ last = NoCall
    /\ nops = 0
    /\ mainpc = 0
    /\ normal_mat = << >>
    /\ synced = "off"

\* The sizes and coordinates a client passes.
Sizes == (0 - NegSizes) .. MaxSize

\* Every in-range coordinate pair, and out-of-range pairs at the boundary
\* (og_size) and past it.
Args(m) ==
    LET n == IF m.og_size > 0 THEN m.og_size ELSE 0
        edge == {0, n, n + 1}
    IN  (Logical(m) \X Logical(m))
        \cup {a \in edge \X edge : a[1] >= m.og_size \/ a[2] >= m.og_size}

\* CompactBoolMatrix(size)
Construct(size) ==
    /\ ctor = "none" /\ mainpc = 0
    /\ ctor' = IF CtorRaises(size) THEN "failed" ELSE "ready"
    /\ self' = IF CtorRaises(size) THEN NoMatrix ELSE NewMatrix(size)
    /\ dense' = IF CtorRaises(size) THEN << >> ELSE NewDense(size)
    /\ last' = [NoCall EXCEPT !.op = "new", !.x = size, !.run = 1,
                              !.err = IF CtorRaises(size) THEN "ValueError" ELSE "ok"]
    /\ UNCHANGED <<other, nops, mainpc, normal_mat, synced>>

\* What a call leaves in last.
Called(op, x, y, res) ==
    LET again == last.op = op /\ last.x = x /\ last.y = y /\ last.err = "ok"
                 /\ res.err = "ok"
    IN  [op |-> op, x |-> x, y |-> y, err |-> res.err, ret |-> res.ret,
         run |-> IF again THEN last.run + 1 ELSE 1,
         was |-> IF again THEN last.was ELSE Get(self, x, y).ret]

\* A client's call of a coordinate operation on the constructed matrix.
Call(op, x, y) ==
    LET res == Apply(self, op, x, y) IN
    /\ ctor = "ready" /\ mainpc = 0 /\ nops < MaxOps
    /\ self' = res.m
    /\ dense' = IF res.err = "ok" THEN DenseApply(dense, op, x, y) ELSE dense
    /\ last' = Called(op, x, y, res)
    /\ nops' = nops + 1
    /\ UNCHANGED <<ctor, other, mainpc, normal_mat, synced>>

SetTrueCall(x, y) == Call("set_true", x, y)

SetFalseCall(x, y) == Call("set_false", x, y)

SwitchCall(x, y) == Call("switch", x, y)

GetCall(x, y) == Call("get", x, y)

AllTrueCall == Call("all_true", 0, 0)

AllFalseCall == Call("all_false", 0, 0)

\* ------------------------------------------------------ the example code
\* size = 5
MainSize == 5

\* The calls of the example code, in order.
MainScript ==
    << <<"all_false", 0, 0>>, <<"switch", 2, 0>>, <<"switch", 2, 1>>,
       <<"switch", 0, 2>>, <<"switch", 1, 2>>, <<"switch", 3, 2>>,
       <<"switch", 4, 2>>, <<"switch", 2, 2>>, <<"set_true", 2, 3>>,
       <<"set_true", 2, 4>> >>

\* mat = CompactBoolMatrix(size)
MainConstruct ==
    /\ ctor = "none" /\ mainpc = 0
    /\ ctor' = "ready"
    /\ self' = NewMatrix(MainSize)
    /\ dense' = NewDense(MainSize)
    /\ last' = [NoCall EXCEPT !.op = "new", !.x = MainSize, !.run = 1]
    /\ mainpc' = 1
    /\ UNCHANGED <<other, nops, normal_mat, synced>>

\* The value of mainpc after an exception, which the example code does not catch.
Aborted == 0 - 1

\* The next call of the example code.
MainStep ==
    /\ mainpc \in 1 .. Len(MainScript)
    /\ LET c == MainScript[mainpc]
           res == Apply(self, c[1], c[2], c[3])
       IN  /\ self' = res.m
           /\ dense' = IF res.err = "ok" THEN DenseApply(dense, c[1], c[2], c[3]) ELSE dense
           /\ last' = Called(c[1], c[2], c[3], res)
           /\ mainpc' = IF res.err = "ok" THEN mainpc + 1 ELSE Aborted
    /\ UNCHANGED <<ctor, other, nops, normal_mat, synced>>

\* normal_mat = mat.compact_to_normal()
MainDump ==
    /\ mainpc = Len(MainScript) + 1
    /\ IF \E i \in Logical(self), j \in Logical(self) : Get(self, i, j).err # "ok"
       THEN mainpc' = Aborted /\ normal_mat' = normal_mat
       ELSE mainpc' = mainpc + 1 /\ normal_mat' = CompactToNormal(self)
    /\ UNCHANGED <<ctor, self, other, dense, last, nops, synced>>

Next ==
    \/ \E size \in Sizes : Construct(size)
    \/ \E a \in Args(self) : SetTrueCall(a[1], a[2])
    \/ \E a \in Args(self) : SetFalseCall(a[1], a[2])
    \/ \E a \in Args(self) : SwitchCall(a[1], a[2])
    \/ \E a \in Args(self) : GetCall(a[1], a[2])
    \/ AllTrueCall
    \/ AllFalseCall
    \/ MainConstruct
    \/ MainStep
    \/ MainDump

Spec == Init /\ [][Next]_vars

\* ---------------------------------------------- two matrices and __eq__
\* The sizes the constructor accepts.
EqSizes == {size \in (0 - NegSizes) .. MaxEqSize : ~CtorRaises(size)}

EqCoords == 0 .. MaxEqSize

\* Two matrices are constructed independently.
EqConstruct(sa, sb) ==
    /\ ctor = "none" /\ synced = "off"
    /\ ctor' = "ready"
    /\ self' = NewMatrix(sa)
    /\ other' = NewMatrix(sb)
    /\ synced' = "same"
    /\ UNCHANGED <<dense, last, nops, mainpc, normal_mat>>

\* The same call is made on both.
EqApply(op, x, y) ==
    /\ synced = "same" /\ nops < MaxEqOps
    /\ self' = Apply(self, op, x, y).m
    /\ other' = Apply(other, op, x, y).m
    /\ nops' = nops + 1
    /\ UNCHANGED <<ctor, dense, last, mainpc, normal_mat, synced>>

\* Then one in-range cell of one of them is set to the opposite of its value.
EqDiverge(who, x, y) ==
    /\ synced = "same"
    /\ IF who = "self"
       THEN /\ ~OutOfBound(self, x, y)
            /\ self' = Switch(self, x, y).m
            /\ other' = other
       ELSE /\ ~OutOfBound(other, x, y)
            /\ other' = Switch(other, x, y).m
            /\ self' = self
    /\ synced' = "diverged"
    /\ UNCHANGED <<ctor, dense, last, nops, mainpc, normal_mat>>

NextEq ==
    \/ \E sa \in EqSizes, sb \in EqSizes : EqConstruct(sa, sb)
    \/ \E op \in {"set_true", "set_false", "switch", "all_true", "all_false"},
          x \in EqCoords, y \in EqCoords : EqApply(op, x, y)
    \/ \E who \in {"self", "other"}, x \in EqCoords, y \in EqCoords : EqDiverge(who, x, y)

SpecEq == Init /\ [][NextEq]_vars

\* --------------------------------------------------------------- claims
\* 0 <= x, y < og_size
InRange(m, x, y) == x \in 0 .. m.og_size - 1 /\ y \in 0 .. m.og_size - 1

CoordOps == {"set_true", "set_false", "switch", "get"}

\* The four logical cells of packed coordinate (i, j).
Quad(m, i, j) ==
    {<<i, j>>, <<i + m.new_size, j>>, <<i, j + m.new_size>>,
     <<i + m.new_size, j + m.new_size>>}

\* C1: get of every logical cell equals the cell of a reference dense matrix
\* that starts all False and receives the same operations.
CE_C1 ==
    (ctor = "ready" /\ self.og_size >= 1) =>
        \A x \in Logical(self), y \in Logical(self) : Cell(self, x, y) = dense[x][y]

\* C2: at a packed coordinate whose four logical cells are all in range,
\* set_true or set_false on the cell of one domain leaves what get returns for
\* the cells of the other three domains unchanged.
CE_C2 ==
    [][\A i \in 0 .. self.new_size - 1, j \in 0 .. self.new_size - 1 :
          ( /\ nops' = nops + 1
            /\ last'.op \in {"set_true", "set_false"}
            /\ <<last'.x, last'.y>> \in Quad(self, i, j)
            /\ \A c \in Quad(self, i, j) : InRange(self, c[1], c[2]) )
          => \A c \in Quad(self, i, j) \ {<<last'.x, last'.y>>} :
                Cell(self', c[1], c[2]) = Cell(self, c[1], c[2])]_vars

\* C3: set_true(x, y) on an in-range cell returns normally and get(x, y) is
\* then True; set_false(x, y) likewise and get(x, y) is then False.
Thm_C3 ==
    (ctor = "ready" /\ last.op \in {"set_true", "set_false"}
                    /\ InRange(self, last.x, last.y)) =>
        /\ last.err = "ok"
        /\ Get(self, last.x, last.y).ret = <<last.op = "set_true">>

\* A cell of domain 1 that was True has been set False.
Wit_C3 ==
    /\ last.op = "set_false" /\ last.err = "ok" /\ last.was = <<TRUE>>
    /\ GetDomain(self, last.x, last.y) = 1

\* C4: get, set_true, set_false and switch with x >= og_size or y >= og_size
\* raise OutOfBound and leave the object as it was.
Thm_C4 ==
    [][( /\ nops' = nops + 1
         /\ last'.op \in CoordOps
         /\ (last'.x >= self.og_size \/ last'.y >= self.og_size) )
       => (last'.err = "OutOfBound" /\ self' = self)]_vars

\* switch(og_size, y) has raised OutOfBound on a matrix that holds True cells.
Wit_C4 ==
    /\ last.op = "switch" /\ last.err = "OutOfBound" /\ last.x = self.og_size
    /\ \E x \in Logical(self), y \in Logical(self) : Cell(self, x, y)

\* C5: a constructor call with size <= 0 raises and creates no matrix.
CE_C5 ==
    (last.op = "new" /\ last.x <= 0) =>
        (last.err # "ok" /\ ctor = "failed" /\ self = NoMatrix)

\* C6: after all_true() get is True for every logical cell, after all_false()
\* it is False for every logical cell.
Thm_C6 ==
    (ctor = "ready" /\ last.op \in {"all_true", "all_false"}) =>
        /\ last.err = "ok"
        /\ \A x \in Logical(self), y \in Logical(self) :
              Get(self, x, y) = Result(self, "ok", <<last.op = "all_true">>)

\* all_true() has been called on a matrix of odd size after another call.
Wit_C6 ==
    last.op = "all_true" /\ last.err = "ok" /\ self.og_size = 3 /\ nops = 2

\* C7: switch(x, y) on an in-range cell makes get(x, y) the negation of what it
\* was, and a second switch(x, y) makes it what it was before the first.
Thm_C7 ==
    (ctor = "ready" /\ last.op = "switch" /\ InRange(self, last.x, last.y)) =>
        /\ last.err = "ok"
        /\ Get(self, last.x, last.y).ret =
              <<IF last.run % 2 = 0 THEN last.was[1] ELSE ~last.was[1]>>

\* switch has been called twice in a row on a cell of domain 1, which reads
\* False again.
Wit_C7 ==
    /\ last.op = "switch" /\ last.run = 2 /\ last.err = "ok"
    /\ GetDomain(self, last.x, last.y) = 1
    /\ Get(self, last.x, last.y).ret = <<FALSE>>

\* The plus shape: row 2 and column 2 True, every other cell False.
Plus == [i \in 0 .. MainSize - 1 |-> [j \in 0 .. MainSize - 1 |-> (i = 2 \/ j = 2)]]

\* C8: no call of the example code raises, and after them compact_to_normal()
\* is True exactly at the cells with x = 2 or y = 2.
Thm_C8 == mainpc # Aborted /\ (mainpc = Len(MainScript) + 2 => normal_mat = Plus)

\* The example code has run to its end.
Wit_C8 == mainpc = Len(MainScript) + 2 /\ last.op = "set_true" /\ normal_mat[2][4]

\* C9: two matrices of equal size that received the same calls compare equal;
\* with one cell of one of them then inverted they compare unequal; matrices of
\* different og_size compare unequal.
CE_C9 ==
    synced # "off" =>
        LET ab == Eq(self, other)
            ba == Eq(other, self)
            rets == {<<ab.err, ab.ret>>, <<ba.err, ba.ret>>}
        IN  /\ self.og_size # other.og_size => rets = {<<"ok", <<FALSE>>>>}
            /\ (self.og_size = other.og_size /\ synced = "same") =>
                  rets = {<<"ok", <<TRUE>>>>}
            /\ (self.og_size = other.og_size /\ synced = "diverged") =>
                  rets = {<<"ok", <<FALSE>>>>}

\* C9 for matrices of size >= 1, the sizes the constructor is meant to accept.
Eq_Positive ==
    (synced # "off" /\ self.og_size >= 1 /\ other.og_size >= 1) => CE_C9

\* C10: right after construction with size >= 1 every packed value is 0 and get
\* is False for every logical cell.
Thm_C10 ==
    (ctor = "ready" /\ last.op = "new" /\ self.og_size >= 1) =>
        /\ \A i \in 0 .. self.new_size - 1, j \in 0 .. self.new_size - 1 :
              self.matrix[i][j] = 0
        /\ \A x \in Logical(self), y \in Logical(self) :
              Get(self, x, y) = Result(self, "ok", <<FALSE>>)

\* A matrix of odd size has just been constructed.
Wit_C10 == ctor = "ready" /\ last.op = "new" /\ self.og_size = 3 /\ self.new_size = 2

\* C11: after set_true(x, y) on an in-range cell, a second set_true(x, y) leaves
\* the whole packed store as the first left it; the same for set_false(x, y).
Thm_C11 ==
    (ctor = "ready" /\ last.op \in {"set_true", "set_false"}
                    /\ InRange(self, last.x, last.y)) =>
        Apply(self, last.op, last.x, last.y) = Result(self, "ok", << >>)

\* set_false has been called twice in a row on a cell of domain 1.
Wit_C11 ==
    /\ last.op = "set_false" /\ last.run = 2 /\ last.err = "ok"
    /\ GetDomain(self, last.x, last.y) = 1

\* The partition rule: 0 top-left, 1 for x >= new_size and y < new_size, 2 for
\* x < new_size and y >= new_size, 3 otherwise.
RuleDomain(m, x, y) ==
    IF x < m.new_size /\ y < m.new_size THEN 0
    ELSE IF x >= m.new_size /\ y < m.new_size THEN 1
    ELSE IF x < m.new_size /\ y >= m.new_size THEN 2
    ELSE 3

\* C12: for every in-range (x, y), the domain __get_domain selects is the one
\* of the partition rule, the boundary x = new_size and y = new_size included.
CE_C12 ==
    ctor = "ready" =>
        \A x \in Logical(self), y \in Logical(self) :
            GetDomain(self, x, y) = RuleDomain(self, x, y)

\* What domain d contributes to packed value v, and the packed value after
\* set_true / set_false of domain d.
Decode(d, v) == ListItem(TruthTable(d), v)

AfterTrue(d, v) == ListItem(SetTrueTable(d), v)

AfterFalse(d, v) == ListItem(SetFalseTable(d), v)

\* The packed values the store holds.
Held(m) == {m.matrix[i][j] : i \in 0 .. m.new_size - 1, j \in 0 .. m.new_size - 1}

\* C13: for every domain d and every packed value v a store holds (each of
\* 0..15 is held in some state), set_true[d][v] decodes to True for d and
\* set_false[d][v] to False, and both decode for every other domain as v does.
Thm_C13 ==
    \A d \in Domains, v \in Held(self) :
        /\ AfterTrue(d, v) \in Cases /\ AfterFalse(d, v) \in Cases
        /\ Decode(d, AfterTrue(d, v)) = TRUE
        /\ Decode(d, AfterFalse(d, v)) = FALSE
        /\ \A e \in Domains \ {d} :
              /\ Decode(e, AfterTrue(d, v)) = Decode(e, v)
              /\ Decode(e, AfterFalse(d, v)) = Decode(e, v)

\* set_true of domain 2 has taken a packed cell from case 2 to case 8.
Wit_C13 ==
    /\ ctor = "ready" /\ last.op = "set_true" /\ last.err = "ok"
    /\ GetDomain(self, last.x, last.y) = 2
    /\ GetCompactVal(self, last.x, last.y, 2) = 8

\* What the four truth tables decode packed value v to, domain 0 first.
Decoded(v) == <<Decode(0, v), Decode(1, v), Decode(2, v), Decode(3, v)>>

\* C14: every packed value k a store holds (each of 0..15 is held in some
\* state) decodes to the assignment the case table lists for case k, and no
\* other packed value decodes to that assignment.
Thm_C14 ==
    \A k \in Held(self) :
        /\ k \in Cases
        /\ Decoded(k) = ListItem(CaseTable, k)
        /\ \A other_k \in Cases \ {k} : Decoded(other_k) # Decoded(k)

\* The packed cell (1, 1) of a matrix of size 4 holds case 7 (OXXO): its cells
\* of domains 0 and 3 read True, those of domains 1 and 2 False.
Wit_C14 ==
    /\ ctor = "ready" /\ self.og_size = 4 /\ self.matrix[1][1] = 7
    /\ Cell(self, 1, 1) /\ ~Cell(self, 3, 1) /\ ~Cell(self, 1, 3) /\ Cell(self, 3, 3)

\* C15: in every state reached from construction by set_true, set_false,
\* switch, all_true and all_false calls, every packed cell holds a value in
\* 0..15.
Thm_C15 == ctor = "ready" => Held(self) \subseteq Cases

\* After all_true() and set_false on a cell of domain 3 a packed cell holds
\* case 11 (OOOX).
Wit_C15 == ctor = "ready" /\ nops = 2 /\ last.op = "set_false" /\ 11 \in Held(self)

\* C16: for every in-range (x, y), the packed cell get reads and the packed
\* cell set_true and set_false write are both (x mod new_size, y mod new_size),
\* a cell of the store, negative indices counted from the end of the array.
Thm_C16 ==
    ctor = "ready" =>
        \A x \in Logical(self), y \in Logical(self) :
            LET domain == GetDomain(self, x, y) IN
            /\ ~IndexError(self, x, y, domain) /\ ~WriteError(self, x, y, domain)
            /\ CellRow(self, x, domain) = x % self.new_size
            /\ CellCol(self, y, domain) = y % self.new_size
            /\ WriteRow(self, x, domain) = x % self.new_size
            /\ WriteCol(self, y, domain) = y % self.new_size

\* set_true(new_size, y) with y < new_size, whose column index y - new_size is
\* negative, has written packed cell (0, y) of a matrix of size 4.
Wit_C16 ==
    /\ ctor = "ready" /\ self.og_size = 4
    /\ last.op = "set_true" /\ last.err = "ok"
    /\ last.x = self.new_size /\ last.y = 1
    /\ RawCol(self, last.y, GetDomain(self, last.x, last.y)) < 0
    /\ self.matrix[0][1] = 4

\* The domain and the packed cell a logical coordinate is sent to.
Slot(m, x, y) ==
    LET domain == GetDomain(m, x, y) IN
    <<domain, CellRow(m, x, domain), CellCol(m, y, domain)>>

\* C17: two distinct in-range logical coordinates never share the same domain
\* slot of the same packed cell.
CE_C17 ==
    ctor = "ready" =>
        \A a \in Logical(self) \X Logical(self), b \in Logical(self) \X Logical(self) :
            a # b => Slot(self, a[1], a[2]) # Slot(self, b[1], b[2])

====
